---- MODULE Spec2Model ----
\* Model of the Kagyur text splitter
\* (src/src/wikisource/text_operations/text_splitter_txt/kagyur_splitter.py)
\* and of parse_text_file, get_page_titles and log_upload_result of the
\* uploader (src/src/wikisource/etext_upload.py).
\*
\* A line is a sequence of one-character strings.  The label "Page: N" that
\* the splitter writes is kept as one element of the sequence: it holds no
\* bracket or brace, so no pattern of the module can match across or inside it.
EXTENDS Integers, Sequences, FiniteSets, TLC

VARIABLES
    content_threshold,          \* self.content_threshold
    fs,                         \* the output directory: path -> file content
    batch_pc,                   \* position of process_all_files
    txt_files,                  \* process_all_files: the sorted input files
    file_i,                     \* process_all_files: index of the loop over txt_files
    total_outputs,              \* process_all_files: total_outputs
    file_status,                \* per input file: "pending", "processed" or "failed"
    pc,                         \* position of process_file
    input_file,                 \* process_file: stem of input_file
    lines,                      \* process_file: content.splitlines()
    idx,                        \* process_file: position of the for loop in lines
    should_split_before_first,  \* process_file: should_split_before_first
    output_files,               \* process_file: output_files
    current_lines,              \* process_file: current_lines
    current_section,            \* process_file: current_section
    page_counter,               \* process_file: page_counter
    last_page_marker_line,      \* process_file: << >> for None, <<line>> otherwise
    section_counter,            \* process_file: section_counter
    written,                    \* history of the calls of write_section_file in this process_file
    raw_line,                   \* a method of the processor called on its own: the line given
    start_counter,              \* replace_page_markers: the page_counter given
    line_call,                  \* the method called, "none" before the call
    line_result,                \* what the method returned
    text_file,                  \* parse_text_file: the lines of the text file
    upload_call,                \* the function of etext_upload.py called last
    page_texts,                 \* what parse_text_file returned
    cache_file,                 \* get_page_titles: the cache file of the index title
    site_index,                 \* get_page_titles: the index page of the site
    page_dict,                  \* what get_page_titles returned
    index_fetches,              \* how often the index was fetched from the site
    cache_writes,               \* how often the cache file was written
    cache_before,               \* the cache file when get_page_titles was called
    log_file,                   \* log_upload_result: the csv file
    log_calls,                  \* history of the calls of log_upload_result
    log_before,                 \* the csv file before the first call
    progress_data,              \* GoogleDocsUploader: self.progress_data
    progress_file,              \* GoogleDocsUploader: the file at self.progress_file
    drive_docs,                 \* the text ids of the Google Docs created, in order
    gdocs_calls                 \* number of calls of process_text_file so far

vars == <<content_threshold, fs, batch_pc, txt_files, file_i, total_outputs,
          file_status, pc, input_file, lines, idx, should_split_before_first,
          output_files, current_lines, current_section, page_counter,
          last_page_marker_line, section_counter, written,
          raw_line, start_counter, line_call, line_result,
          text_file, upload_call, page_texts, cache_file, site_index, page_dict,
          index_fetches, cache_writes, cache_before, log_file, log_calls, log_before,
          progress_data, progress_file, drive_docs, gdocs_calls>>

line_vars == <<raw_line, start_counter, line_call, line_result>>

upload_vars == <<text_file, upload_call, page_texts, cache_file, site_index, page_dict,
                 index_fetches, cache_writes, cache_before, log_file, log_calls,
                 log_before>>

gdocs_vars == <<progress_data, progress_file, drive_docs, gdocs_calls>>

-----------------------------------------------------------------------------
\* Characters and the five patterns (kagyur_splitter.py lines 5-14)

Digit == {"0", "1", "2", "3", "4", "5", "6", "7", "8", "9"}

LowerLetter == {"a", "b", "c", "d", "e", "f", "g", "h", "i", "j", "k", "l", "m",
                "n", "o", "p", "q", "r", "s", "t", "u", "v", "w", "x", "y", "z"}

Whitespace == {" ", "\t"}

\* The character of s at position i, "" beyond the ends of s.
At(s, i) == IF i \in 1..Len(s) THEN s[i] ELSE ""

\* Length of the longest run of digits of s that starts at position i (\d+).
RECURSIVE DigitRun(_, _)
DigitRun(s, i) == IF At(s, i) \in Digit THEN 1 + DigitRun(s, i + 1) ELSE 0

\* First position >= i of s that holds a character of set cs, 0 when none.
RECURSIVE FirstOf(_, _, _)
FirstOf(s, i, cs) ==
    IF i > Len(s) THEN 0
    ELSE IF s[i] \in cs THEN i
    ELSE FirstOf(s, i + 1, cs)

\* SECTION_TOKEN_RE  \{D(\d+)([a-z])?\} : length of the match at i, 0 when none.
MatchSectionToken(s, i) ==
    LET d == DigitRun(s, i + 2)
        j == i + 2 + d
    IN  IF At(s, i) = "{" /\ At(s, i + 1) = "D" /\ d >= 1
        THEN IF At(s, j) \in LowerLetter /\ At(s, j + 1) = "}" THEN d + 4
             ELSE IF At(s, j) = "}" THEN d + 3
             ELSE 0
        ELSE 0

\* SECTION_DASH_TOKEN_RE  \{D\d+-\d+\}
MatchSectionDash(s, i) ==
    LET d1 == DigitRun(s, i + 2)
        j  == i + 2 + d1
        d2 == DigitRun(s, j + 1)
    IN  IF /\ At(s, i) = "{" /\ At(s, i + 1) = "D" /\ d1 >= 1
           /\ At(s, j) = "-" /\ d2 >= 1 /\ At(s, j + 1 + d2) = "}"
        THEN d1 + d2 + 4
        ELSE 0

\* BRACKET_WITH_DOT_RE  \[\d+[a-z]\.\d+\]
MatchBracketWithDot(s, i) ==
    LET d1 == DigitRun(s, i + 1)
        j  == i + 1 + d1
        d2 == DigitRun(s, j + 2)
    IN  IF /\ At(s, i) = "[" /\ d1 >= 1 /\ At(s, j) \in LowerLetter
           /\ At(s, j + 1) = "." /\ d2 >= 1 /\ At(s, j + 2 + d2) = "]"
        THEN d1 + d2 + 4
        ELSE 0

\* BRACKET_PAGE_RE  \[\d+[a-z]\]
MatchBracketPage(s, i) ==
    LET d == DigitRun(s, i + 1)
        j == i + 1 + d
    IN  IF /\ At(s, i) = "[" /\ d >= 1 /\ At(s, j) \in LowerLetter
           /\ At(s, j + 1) = "]"
        THEN d + 3
        ELSE 0

\* TEXT_VARIANT_RE  \{([^,}]+),([^}]+)\} : [len, from, to], the length of the
\* match at i (0 when none) and the positions of group 2.  Group 1 runs to the
\* first "," or "}" after the brace and that must be a ","; group 2 runs to the
\* first "}" after the comma.
MatchTextVariant(s, i) ==
    LET j == FirstOf(s, i + 1, {",", "}"})
        k == IF j = 0 THEN 0 ELSE FirstOf(s, j + 1, {"}"})
    IN  IF /\ At(s, i) = "{" /\ j > i + 1 /\ s[j] = "," /\ k > j + 1
        THEN [len |-> k - i + 1, from |-> j + 1, to |-> k - 1]
        ELSE [len |-> 0, from |-> 0, to |-> 0]

\* Length of the match of the pattern named re at position i of s.
MatchLen(re, s, i) ==
    CASE re = "SECTION_TOKEN_RE"      -> MatchSectionToken(s, i)
      [] re = "SECTION_DASH_TOKEN_RE" -> MatchSectionDash(s, i)
      [] re = "BRACKET_WITH_DOT_RE"   -> MatchBracketWithDot(s, i)
      [] re = "BRACKET_PAGE_RE"       -> MatchBracketPage(s, i)
      [] re = "TEXT_VARIANT_RE"       -> MatchTextVariant(s, i).len

\* re.search(s): position of the leftmost match at or after i, 0 when none.
RECURSIVE SearchFrom(_, _, _)
SearchFrom(re, s, i) ==
    IF i > Len(s) THEN 0
    ELSE IF MatchLen(re, s, i) > 0 THEN i
    ELSE SearchFrom(re, s, i + 1)

ReSearch(re, s) == SearchFrom(re, s, 1)

\* re.sub("", s): every non-overlapping match, leftmost first, deleted.
RECURSIVE DeleteFrom(_, _, _)
DeleteFrom(re, s, i) ==
    IF i > Len(s) THEN << >>
    ELSE LET n == MatchLen(re, s, i)
         IN  IF n > 0 THEN DeleteFrom(re, s, i + n)
             ELSE <<s[i]>> \o DeleteFrom(re, s, i + 1)

ReDelete(re, s) == DeleteFrom(re, s, 1)

\* TEXT_VARIANT_RE.sub(r"\2", s)
RECURSIVE VariantSubFrom(_, _)
VariantSubFrom(s, i) ==
    IF i > Len(s) THEN << >>
    ELSE LET m == MatchTextVariant(s, i)
         IN  IF m.len > 0
             THEN SubSeq(s, m.from, m.to) \o VariantSubFrom(s, i + m.len)
             ELSE <<s[i]>> \o VariantSubFrom(s, i + 1)

\* The text "Page: N"
PageLabel(n) == "Page: " \o ToString(n)

\* BRACKET_PAGE_RE.sub(repl, line) with repl counting from c:
\* [line, page_counter] after the substitution.
RECURSIVE PageSubFrom(_, _, _)
PageSubFrom(s, i, c) ==
    IF i > Len(s) THEN [line |-> << >>, page_counter |-> c]
    ELSE LET n == MatchBracketPage(s, i)
         IN  IF n > 0
             THEN LET r == PageSubFrom(s, i + n, c + 1)
                  IN  [line |-> <<PageLabel(c)>> \o r.line,
                       page_counter |-> r.page_counter]
             ELSE LET r == PageSubFrom(s, i + 1, c)
                  IN  [line |-> <<s[i]>> \o r.line,
                       page_counter |-> r.page_counter]

\* PageOneSubFrom replacing the first bare marker of s only.
PageOneSubFirst(s, i) ==
    IF ReSearch("BRACKET_PAGE_RE", s) = 0 THEN s
    ELSE SubSeq(s, 1, ReSearch("BRACKET_PAGE_RE", s) - 1)
         \o <<PageLabel(1)>>
         \o SubSeq(s, ReSearch("BRACKET_PAGE_RE", s)
                          + MatchBracketPage(s, ReSearch("BRACKET_PAGE_RE", s)), Len(s))

\* BRACKET_PAGE_RE.sub("Page: 1", s)
RECURSIVE PageOneSubFrom(_, _)
PageOneSubFrom(s, i) ==
    IF i > Len(s) THEN << >>
    ELSE LET n == MatchBracketPage(s, i)
         IN  IF n > 0 THEN <<PageLabel(1)>> \o PageOneSubFrom(s, i + n)
             ELSE <<s[i]>> \o PageOneSubFrom(s, i + 1)

\* The characters of s joined into one string.
RECURSIVE Str(_)
Str(s) == IF s = << >> THEN "" ELSE Head(s) \o Str(Tail(s))

-----------------------------------------------------------------------------
\* LineByLineProcessor: the pure methods

\* process_line: [line, section_token, has_page_marker];
\* section_token is << >> for None and <<id>> otherwise.
\* LineResult with the flag set by any opening bracket.
LineResultAnyBracket(line, section_token) ==
    [line |-> line,
     section_token |-> section_token,
     has_page_marker |-> FirstOf(line, 1, {"["}) > 0]

\* Lines 52-55: the page marker flag and the result.
LineResult(line, section_token) ==
    [line |-> line,
     section_token |-> section_token,
     has_page_marker |-> ReSearch("BRACKET_PAGE_RE", line) > 0]

\* Lines 42-50: p is the position of the first section token of line, 0 when
\* none; the id is "D" + group(1) + (group(2) or ""), the match without its
\* braces.
ExtractSection(line, p) ==
    IF p = 0 THEN LineResult(line, << >>)
    ELSE LineResult(ReDelete("SECTION_TOKEN_RE", line),
                    <<Str(SubSeq(line, p + 1, p + MatchSectionToken(line, p) - 2))>>)

\* Lines 42-43: section_match = SECTION_TOKEN_RE.search(line)
SearchSection(line) == ExtractSection(line, ReSearch("SECTION_TOKEN_RE", line))

process_line(line) ==
    SearchSection(
        ReDelete("SECTION_DASH_TOKEN_RE",
            ReDelete("BRACKET_WITH_DOT_RE",
                VariantSubFrom(line, 1))))

\* str.strip()
RECURSIVE LStrip(_)
LStrip(s) == IF s # << >> /\ Head(s) \in Whitespace THEN LStrip(Tail(s)) ELSE s

RECURSIVE RStrip(_)
RStrip(s) ==
    IF s # << >> /\ s[Len(s)] \in Whitespace
    THEN RStrip(SubSeq(s, 1, Len(s) - 1))
    ELSE s

Strip(s) == RStrip(LStrip(s))

\* is_meaningful_line deleting the dotted markers first.
IsMeaningfulLineDottedFirst(line) ==
    Len(Strip(ReDelete("BRACKET_PAGE_RE",
            Strip(ReDelete("BRACKET_WITH_DOT_RE", line))))) > 0

is_meaningful_line(line) ==
    Len(Strip(ReDelete("BRACKET_WITH_DOT_RE",
            Strip(ReDelete("BRACKET_PAGE_RE", line))))) > 0

\* count_meaningful_lines_before_section: the loop from line i (counted from
\* 1) on; first_section_line is the index counted from 0, -1 when none.
RECURSIVE CountFrom(_, _, _)
CountFrom(ls, i, meaningful_count) ==
    IF i > Len(ls)
    THEN [meaningful_count |-> meaningful_count, first_section_line |-> -1]
    ELSE IF ReSearch("SECTION_TOKEN_RE", ls[i]) > 0
         THEN [meaningful_count |-> meaningful_count, first_section_line |-> i - 1]
         ELSE CountFrom(ls, i + 1,
                        IF is_meaningful_line(ls[i]) THEN meaningful_count + 1
                        ELSE meaningful_count)

count_meaningful_lines_before_section(ls) == CountFrom(ls, 1, 0)

\* replace_page_markers advancing the counter once for the line.
ReplacePageMarkersOnce(line, c) ==
    [line |-> PageSubFrom(line, 1, c).line,
     page_counter |-> IF ReSearch("BRACKET_PAGE_RE", line) > 0 THEN c + 1 ELSE c]

replace_page_markers(line, c) == PageSubFrom(line, 1, c)

-----------------------------------------------------------------------------
\* The output writer

\* OutputName with the section id appended for BASE too.
OutputNameBaseSuffixed(stem, section) ==
    IF section = "UNKNOWN" THEN stem \o ".txt"
    ELSE stem \o "_" \o section \o ".txt"

\* write_section_file: the name of the output file (lines 218-225)
OutputName(stem, section) ==
    IF section = "UNKNOWN" THEN stem \o ".txt"
    ELSE IF section = "BASE" THEN stem \o ".txt"
    ELSE stem \o "_" \o section \o ".txt"

\* "\n".join(lines)
RECURSIVE JoinLines(_)
JoinLines(ls) ==
    IF ls = << >> THEN << >>
    ELSE IF Len(ls) = 1 THEN ls[1]
    ELSE ls[1] \o <<"\n">> \o JoinLines(Tail(ls))

\* output_path.write_text(content): the file is created or replaced
WriteText(dir, path, content) ==
    [p \in (DOMAIN dir) \cup {path} |-> IF p = path THEN content ELSE dir[p]]

\* The record of one call write_section_file(input_file, section, lines)
FlushRecord(stem, section, ls) ==
    [section |-> section, path |-> OutputName(stem, section), lines |-> ls]

-----------------------------------------------------------------------------
\* process_file: the steps of the scan over one state record
\*   st = [current_lines, current_section, page_counter,
\*         last_page_marker_line, section_counter, flushed]
\* flushed is << >> or <<[section, lines]>>, the buffer the step has written.

RemoveAt(s, i) == SubSeq(s, 1, i - 1) \o SubSeq(s, i + 1, Len(s))

\* The last position of cl that holds a line with a bare page marker, 0 when
\* none: for i in range(len(current_lines) - 1, -1, -1).
RECURSIVE LastMarkerLine(_, _)
LastMarkerLine(cl, i) ==
    IF i = 0 THEN 0
    ELSE IF ReSearch("BRACKET_PAGE_RE", cl[i]) > 0 THEN i
    ELSE LastMarkerLine(cl, i - 1)

\* current_lines.pop(i), i the position found by the search
PopAt(cl, last, i) ==
    IF i = 0 THEN [current_lines |-> cl, last_page_marker_line |-> last]
    ELSE [current_lines |-> RemoveAt(cl, i), last_page_marker_line |-> <<cl[i]>>]

\* Lines 136-141 and 167-172: find and remove the last page marker line.
RemoveLastPageMarkerLine(cl, last) ==
    IF last # << >> /\ cl # << >>
    THEN PopAt(cl, last, LastMarkerLine(cl, Len(cl)))
    ELSE [current_lines |-> cl, last_page_marker_line |-> last]

\* Lines 143-162 and 174-192: r is the buffer and the pending line after the
\* search.  The buffer is written under section, the new buffer is started
\* under section_token, with the pending page marker line, if any, rendered
\* with Page: 1 as its first line.
FlushAndOpen(r, section, section_token, counter) ==
    IF r.last_page_marker_line # << >>
    THEN [current_lines |-> <<PageOneSubFrom(r.last_page_marker_line[1], 1)>>,
          current_section |-> section_token,
          page_counter |-> 2,
          last_page_marker_line |-> << >>,
          section_counter |-> counter,
          flushed |-> <<[section |-> section, lines |-> r.current_lines]>>]
    ELSE [current_lines |-> << >>,
          current_section |-> section_token,
          page_counter |-> 1,
          last_page_marker_line |-> << >>,
          section_counter |-> counter,
          flushed |-> <<[section |-> section, lines |-> r.current_lines]>>]

\* Lines 133-162: the first section token, split before it.
SplitBeforeFirst(st, section_token) ==
    FlushAndOpen(RemoveLastPageMarkerLine(st.current_lines, st.last_page_marker_line),
                 "BASE", section_token, st.section_counter + 1)

\* FirstSection writing the lines before the token under the section they
\* were gathered under.
FirstSectionFlushing(st, section_token) ==
    FlushAndOpen([current_lines |-> st.current_lines, last_page_marker_line |-> << >>],
                 st.current_section, section_token, st.section_counter + 1)

\* Lines 163-165: the first section token, no split.
FirstSection(st, section_token) ==
    [st EXCEPT !.current_section = section_token,
               !.section_counter = st.section_counter + 1]

\* SectionBoundary writing the closed buffer under the section that opens.
SectionBoundaryUnderNew(st, section_token) ==
    FlushAndOpen(RemoveLastPageMarkerLine(st.current_lines, st.last_page_marker_line),
                 section_token, section_token, 0 + 1)

\* SectionBoundary leaving section_counter at the reset of line 182.
SectionBoundaryCounterReset(st, section_token) ==
    FlushAndOpen(RemoveLastPageMarkerLine(st.current_lines, st.last_page_marker_line),
                 st.current_section, section_token, 0)

\* Lines 166-192: a section token while a section is open.
SectionBoundary(st, section_token) ==
    FlushAndOpen(RemoveLastPageMarkerLine(st.current_lines, st.last_page_marker_line),
                 st.current_section, section_token, 0 + 1)

\* Lines 131-192: if section_token: ...
OnSectionToken(st, section_token, split) ==
    IF section_token = << >> THEN st
    ELSE IF st.section_counter = 0
         THEN IF split THEN SplitBeforeFirst(st, section_token[1])
              ELSE FirstSection(st, section_token[1])
         ELSE SectionBoundary(st, section_token[1])

\* Lines 194-202: if has_page_marker: ... ; current_lines.append(processed_line)
\* Lines 195-202: r is the result of replace_page_markers.
AppendReplaced(st, line, r) ==
    [st EXCEPT !.current_lines = Append(st.current_lines, r.line),
               !.page_counter = r.page_counter,
               !.last_page_marker_line =
                   IF st.section_counter > 0 THEN <<line>>
                   ELSE st.last_page_marker_line]

\* OnPageMarker replacing the markers only once a section is open.
OnPageMarkerOnceOpen(st, line, processed_line, has_page_marker) ==
    IF has_page_marker /\ st.section_counter > 0
    THEN AppendReplaced(st, line, replace_page_markers(processed_line, st.page_counter))
    ELSE [st EXCEPT !.current_lines = Append(st.current_lines, processed_line)]

\* Lines 194-202: if has_page_marker: ... ; current_lines.append(processed_line)
OnPageMarker(st, line, processed_line, has_page_marker) ==
    IF has_page_marker
    THEN AppendReplaced(st, line, replace_page_markers(processed_line, st.page_counter))
    ELSE [st EXCEPT !.current_lines = Append(st.current_lines, processed_line)]

\* Lines 130-202: pl is the result of process_line(line).
OnLine(st, line, pl, split) ==
    OnPageMarker(OnSectionToken(st, pl.section_token, split),
                 line, pl.line, pl.has_page_marker)

\* One iteration of the loop of lines 127-202.
ScanStep(st, line, split) == OnLine(st, line, process_line(line), split)

-----------------------------------------------------------------------------
\* Inputs

MaxDocLen == 3

\* The input files of the input directory, in sorted order.
InputFiles == <<"a", "a_D1">>

InputFileSet == {InputFiles[i] : i \in 1..Len(InputFiles)}

LText      == <<"T">>
LEmpty     == << >>
LPage      == <<"[", "1", "a", "]", "T">>
LSection   == <<"{", "D", "1", "}", "T">>
LSecPages  == <<"{", "D", "2", "}", "[", "1", "a", "]", "[", "2", "b", "]">>
LSecLetter == <<"[", "3", "a", "]", "{", "D", "1", "a", "}">>
LCleaned   == <<"[", "1", "b", ".", "4", "]", "{", "D", "1", "-", "1", "}", "{", "a", ",", "T", "}">>
LOpenBrace == <<"{", "a", ",", "{", "D", "1", "}">>

LineMenu == {LText, LEmpty, LPage, LSection, LSecPages, LSecLetter, LCleaned, LOpenBrace}

\* The documents: every sequence of at most MaxDocLen lines of the menu.
Docs == UNION {[1..n -> LineMenu] : n \in 0..MaxDocLen}

\* The documents of a batch run.
BatchDocs == {<< >>, <<LText>>, <<LSection, LPage>>, <<LText, LSection, LSection>>}

Thresholds == {1, 2}

-----------------------------------------------------------------------------
\* The state machine

\* No method of the processor has been called on its own.
LineIdle ==
    /\ raw_line = << >>
    /\ start_counter = 1
    /\ line_call = "none"
    /\ line_result = << >>

\* No function of etext_upload.py has been called.
UploadIdle ==
    /\ text_file = << >>
    /\ upload_call = "none"
    /\ page_texts = << >>
    /\ cache_file = [kind |-> "absent"]
    /\ site_index = << >>
    /\ page_dict = << >>
    /\ index_fetches = 0
    /\ cache_writes = 0
    /\ cache_before = [kind |-> "absent"]
    /\ log_file = << >>
    /\ log_calls = << >>
    /\ log_before = << >>

\* Neither process_all_files nor process_file has been called.
SplitterIdle ==
    /\ fs = << >>
    /\ batch_pc = "idle"
    /\ txt_files = << >>
    /\ file_i = 1
    /\ total_outputs = 0
    /\ file_status = [f \in InputFileSet |-> "absent"]
    /\ pc = "idle"
    /\ input_file = ""
    /\ lines = << >>
    /\ idx = 1
    /\ should_split_before_first = FALSE
    /\ output_files = << >>
    /\ current_lines = << >>
    /\ current_section = "UNKNOWN"
    /\ page_counter = 1
    /\ last_page_marker_line = << >>
    /\ section_counter = 0
    /\ written = << >>

\* No GoogleDocsUploader has been made.
GDocsIdle ==
    /\ progress_data = << >>
    /\ progress_file = [kind |-> "absent"]
    /\ drive_docs = << >>
    /\ gdocs_calls = 0

Init ==
    /\ content_threshold \in Thresholds
    /\ GDocsIdle
    /\ SplitterIdle
    /\ LineIdle
    /\ UploadIdle

batch_vars == <<batch_pc, txt_files, file_i, total_outputs, file_status>>

\* Lines 116-118: c is the result of count_meaningful_lines_before_section.
ShouldSplit(c, threshold) ==
    c.meaningful_count >= threshold /\ c.first_section_line > 0

\* Lines 108-125: the file is read and scanned once, the state is set up.
BeginProcessFile(f, doc) ==
    /\ pc' = "scan"
    /\ input_file' = f
    /\ lines' = doc
    /\ idx' = 1
    /\ should_split_before_first' =
           ShouldSplit(count_meaningful_lines_before_section(doc), content_threshold)
    /\ output_files' = << >>
    /\ current_lines' = << >>
    /\ current_section' = "UNKNOWN"
    /\ page_counter' = 1
    /\ last_page_marker_line' = << >>
    /\ section_counter' = 0
    /\ written' = << >>
    /\ UNCHANGED <<content_threshold, fs>>

\* process_file(input_file), called on its own.
ProcessFile ==
    /\ batch_pc = "idle"
    /\ pc = "idle"
    /\ \E i \in 1..Len(InputFiles), doc \in Docs : BeginProcessFile(InputFiles[i], doc)
    /\ UNCHANGED batch_vars
    /\ UNCHANGED <<line_vars, upload_vars, gdocs_vars>>

\* write_section_file(input_file, section, lines) and
\* output_files.append(output_file)
Flush(r) ==
    /\ fs' = WriteText(fs, r.path, JoinLines(r.lines))
    /\ output_files' = Append(output_files, r.path)
    /\ written' = Append(written, r)

\* The state of the scan as one record.
ScanState ==
    [current_lines |-> current_lines,
     current_section |-> current_section,
     page_counter |-> page_counter,
     last_page_marker_line |-> last_page_marker_line,
     section_counter |-> section_counter,
     flushed |-> << >>]

\* Lines 127-202: one line of the document.
ScanLine ==
    /\ pc = "scan"
    /\ idx <= Len(lines)
    /\ \E nx \in {ScanStep(ScanState, lines[idx], should_split_before_first)} :
           /\ current_lines' = nx.current_lines
           /\ current_section' = nx.current_section
           /\ page_counter' = nx.page_counter
           /\ last_page_marker_line' = nx.last_page_marker_line
           /\ section_counter' = nx.section_counter
           /\ IF nx.flushed = << >>
              THEN UNCHANGED <<fs, output_files, written>>
              ELSE Flush(FlushRecord(input_file, nx.flushed[1].section, nx.flushed[1].lines))
    /\ idx' = idx + 1
    /\ UNCHANGED <<content_threshold, pc, input_file, lines, should_split_before_first>>
    /\ UNCHANGED batch_vars
    /\ UNCHANGED <<line_vars, upload_vars, gdocs_vars>>

\* EndProcessFile writing the last buffer also when it is empty.
EndProcessFileAlways ==
    /\ pc = "scan"
    /\ idx > Len(lines)
    /\ pc' = "returned"
    /\ Flush(FlushRecord(input_file, current_section, current_lines))
    /\ UNCHANGED <<content_threshold, input_file, lines, idx, should_split_before_first,
                   current_lines, current_section, page_counter,
                   last_page_marker_line, section_counter>>
    /\ UNCHANGED batch_vars
    /\ UNCHANGED <<line_vars, upload_vars, gdocs_vars>>

\* Lines 204-210: the last buffer is written and the list returned.
EndProcessFile ==
    /\ pc = "scan"
    /\ idx > Len(lines)
    /\ pc' = "returned"
    /\ IF current_lines # << >>
       THEN Flush(FlushRecord(input_file, current_section, current_lines))
       ELSE UNCHANGED <<fs, output_files, written>>
    /\ UNCHANGED <<content_threshold, input_file, lines, idx, should_split_before_first,
                   current_lines, current_section, page_counter,
                   last_page_marker_line, section_counter>>
    /\ UNCHANGED batch_vars
    /\ UNCHANGED <<line_vars, upload_vars, gdocs_vars>>

Next == ProcessFile \/ ScanLine \/ EndProcessFile

Spec == Init /\ [][Next]_vars

-----------------------------------------------------------------------------
\* process_all_files

file_vars == <<input_file, lines, idx, should_split_before_first, output_files,
               current_lines, current_section, page_counter,
               last_page_marker_line, section_counter, written>>

\* sorted(f for f in self.input_dir.glob("*.txt") if f.is_file()), S the
\* files of the input directory
SortedFiles(S) == SelectSeq(InputFiles, LAMBDA f : f \in S)

\* Lines 234-241: the input files are listed; with none the method returns.
ProcessAllFiles ==
    /\ batch_pc = "idle"
    /\ pc = "idle"
    /\ \E S \in SUBSET InputFileSet :
           /\ txt_files' = SortedFiles(S)
           /\ file_status' = [f \in InputFileSet |-> IF f \in S THEN "pending" ELSE "absent"]
           /\ batch_pc' = IF S = {} THEN "done" ELSE "loop"
    /\ file_i' = 1
    /\ total_outputs' = 0
    /\ UNCHANGED <<content_threshold, fs, pc>>
    /\ UNCHANGED file_vars
    /\ UNCHANGED <<line_vars, upload_vars, gdocs_vars>>

\* Line 244: process_file(txt_file) is called and reads the file.
BatchProcessFile ==
    /\ batch_pc = "loop"
    /\ pc = "idle"
    /\ file_i <= Len(txt_files)
    /\ \E doc \in BatchDocs : BeginProcessFile(txt_files[file_i], doc)
    /\ UNCHANGED batch_vars
    /\ UNCHANGED <<line_vars, upload_vars, gdocs_vars>>

\* Lines 244 and 108: input_file.read_text raises.  Neither process_file nor
\* process_all_files catches the exception: process_all_files ends with it.
ReadFails ==
    /\ batch_pc = "loop"
    /\ pc = "idle"
    /\ file_i <= Len(txt_files)
    /\ batch_pc' = "aborted"
    /\ file_status' = [file_status EXCEPT ![txt_files[file_i]] = "failed"]
    /\ UNCHANGED <<content_threshold, fs, txt_files, file_i, total_outputs, pc>>
    /\ UNCHANGED file_vars
    /\ UNCHANGED <<line_vars, upload_vars, gdocs_vars>>

\* The next step of process_file calls write_section_file.
AboutToWrite ==
    IF idx <= Len(lines)
    THEN ScanStep(ScanState, lines[idx], should_split_before_first).flushed # << >>
    ELSE current_lines # << >>

\* Lines 144, 174, 205 and 227: output_path.write_text raises.  Neither
\* process_file nor process_all_files catches the exception.
WriteFails ==
    /\ batch_pc = "loop"
    /\ pc = "scan"
    /\ AboutToWrite
    /\ pc' = "raised"
    /\ batch_pc' = "aborted"
    /\ file_status' = [file_status EXCEPT ![input_file] = "failed"]
    /\ UNCHANGED <<content_threshold, fs, txt_files, file_i, total_outputs>>
    /\ UNCHANGED file_vars
    /\ UNCHANGED <<line_vars, upload_vars, gdocs_vars>>

\* Lines 245-246: process_file has returned.
FileProcessed ==
    /\ batch_pc = "loop"
    /\ pc = "returned"
    /\ total_outputs' = total_outputs + Len(output_files)
    /\ file_status' = [file_status EXCEPT ![input_file] = "processed"]
    /\ file_i' = file_i + 1
    /\ pc' = "idle"
    /\ UNCHANGED <<content_threshold, fs, batch_pc, txt_files>>
    /\ UNCHANGED file_vars
    /\ UNCHANGED <<line_vars, upload_vars, gdocs_vars>>

\* Lines 248-250: the loop is over.
AllFilesProcessed ==
    /\ batch_pc = "loop"
    /\ pc = "idle"
    /\ file_i > Len(txt_files)
    /\ batch_pc' = "done"
    /\ UNCHANGED <<content_threshold, fs, txt_files, file_i, total_outputs, file_status, pc>>
    /\ UNCHANGED file_vars
    /\ UNCHANGED <<line_vars, upload_vars, gdocs_vars>>

NextBatch ==
    \/ ProcessAllFiles
    \/ BatchProcessFile
    \/ ReadFails
    \/ ScanLine
    \/ WriteFails
    \/ EndProcessFile
    \/ FileProcessed
    \/ AllFilesProcessed

SpecBatch == Init /\ [][NextBatch]_vars

-----------------------------------------------------------------------------
\* The methods of the processor called on one line

MaxPieces == 3

MaxCounter == 2

\* Pieces of markup and text; a line is made of at most MaxPieces of them.
Pieces == {<<"T">>, <<" ">>, <<"{">>, <<"}">>,
           <<",", "T", "}">>,
           <<"{", "T", ",">>,
           <<"{", "T", ",", "T", "}">>,
           <<"[", "1", "a", "]">>,
           <<"[", "1", "a", ".">>,
           <<"1", "]">>,
           <<"{", "D">>,
           <<"1", "}">>,
           <<"{", "D", "1", "}">>,
           <<"{", "D", "2", "a", "}">>,
           <<"{", "D", "1", "-", "1", "}">>}

RECURSIVE LinesOf(_)
LinesOf(n) ==
    IF n = 0 THEN {<< >>}
    ELSE LinesOf(n - 1) \cup {p \o l : p \in Pieces, l \in LinesOf(n - 1)}

RawLines == LinesOf(MaxPieces)

Counters == 1..MaxCounter

\* LineByLineProcessor(input_dir, output_dir) with the default threshold of
\* line 18; a line and a counter are chosen.
InitLine ==
    /\ content_threshold = 50
    /\ GDocsIdle
    /\ SplitterIdle
    /\ UploadIdle
    /\ raw_line \in RawLines
    /\ start_counter \in Counters
    /\ line_call = "none"
    /\ line_result = << >>

splitter_vars == <<content_threshold, fs, pc, batch_vars, file_vars>>

\* process_line(raw_line)
ProcessLine ==
    /\ line_call = "none"
    /\ line_call' = "process_line"
    /\ line_result' = <<process_line(raw_line)>>
    /\ UNCHANGED <<raw_line, start_counter, splitter_vars, upload_vars, gdocs_vars>>

\* process_line called on the line that process_line returned
ProcessLineAgain ==
    /\ line_call = "process_line"
    /\ line_call' = "process_line_again"
    /\ line_result' = Append(line_result, process_line(line_result[1].line))
    /\ UNCHANGED <<raw_line, start_counter, splitter_vars, upload_vars, gdocs_vars>>

\* Lines 181-183: replace_page_markers called on the line that process_line
\* returned
ReplaceInProcessed ==
    /\ line_call = "process_line"
    /\ line_call' = "process_line_replace"
    /\ line_result' = Append(line_result, replace_page_markers(line_result[1].line, start_counter))
    /\ UNCHANGED <<raw_line, start_counter, splitter_vars, upload_vars, gdocs_vars>>

\* replace_page_markers(raw_line, start_counter)
ReplacePageMarkers ==
    /\ line_call = "none"
    /\ line_call' = "replace_page_markers"
    /\ line_result' = <<replace_page_markers(raw_line, start_counter)>>
    /\ UNCHANGED <<raw_line, start_counter, splitter_vars, upload_vars, gdocs_vars>>

\* is_meaningful_line(raw_line)
IsMeaningfulLine ==
    /\ line_call = "none"
    /\ line_call' = "is_meaningful_line"
    /\ line_result' = <<is_meaningful_line(raw_line)>>
    /\ UNCHANGED <<raw_line, start_counter, splitter_vars, upload_vars, gdocs_vars>>

NextLine ==
    \/ ProcessLine
    \/ ProcessLineAgain
    \/ ReplaceInProcessed
    \/ ReplacePageMarkers
    \/ IsMeaningfulLine

SpecLine == InitLine /\ [][NextLine]_vars

-----------------------------------------------------------------------------
\* etext_upload.py: parse_text_file

MaxFileLen == 3

PageNoPrefix == <<"P", "a", "g", "e", " ", "n", "o", ":">>

\* s.startswith(prefix)
StartsWith(s, prefix) == Len(s) >= Len(prefix) /\ SubSeq(s, 1, Len(prefix)) = prefix

\* Line 49: line.strip().startswith("Page no:")
IsHeaderLine(line) == StartsWith(Strip(line), PageNoPrefix)

\* Line 55: line.split(":", 1)[1].strip(), the text after the first colon
PageNumber(line) == Strip(SubSeq(line, FirstOf(line, 1, {":"}) + 1, Len(line)))

\* Line 61: re.sub(r"\([^)]*\)", "", line): from an opening parenthesis to the
\* first closing one after it, leftmost first.
RECURSIVE RemoveParensFrom(_, _)
RemoveParensFrom(s, i) ==
    IF i > Len(s) THEN << >>
    ELSE IF s[i] = "(" /\ FirstOf(s, i + 1, {")"}) > 0
         THEN RemoveParensFrom(s, FirstOf(s, i + 1, {")"}) + 1)
         ELSE <<s[i]>> \o RemoveParensFrom(s, i + 1)

RemoveParens(line) == RemoveParensFrom(line, 1)

\* "\n".join(ls)
RECURSIVE JoinNewline(_)
JoinNewline(ls) ==
    IF ls = << >> THEN << >>
    ELSE IF Len(ls) = 1 THEN ls[1]
    ELSE ls[1] \o <<"\n">> \o JoinNewline(Tail(ls))

\* str.strip() of a text of several lines
TextWhitespace == Whitespace \cup {"\n"}

RECURSIVE LStripText(_)
LStripText(s) ==
    IF s # << >> /\ Head(s) \in TextWhitespace THEN LStripText(Tail(s)) ELSE s

RECURSIVE RStripText(_)
RStripText(s) ==
    IF s # << >> /\ s[Len(s)] \in TextWhitespace
    THEN RStripText(SubSeq(s, 1, Len(s) - 1))
    ELSE s

StripText(s) == RStripText(LStripText(s))

\* d[k] = v of a dict
DictPut(d, k, v) == [x \in (DOMAIN d) \cup {k} |-> IF x = k THEN v ELSE d[x]]

\* The loop of lines 46-65 runs over the record
\*   st = [page_texts, current_page, current_lines]
\* with current_page << >> for None and <<number>> otherwise.

\* Lines 51-52 and 64-65: the page that is open is stored.
SavePage(st) ==
    IF st.current_page # << >>
    THEN DictPut(st.page_texts, Str(st.current_page[1]),
                 StripText(JoinNewline(st.current_lines)))
    ELSE st.page_texts

\* OnHeaderLine without line 58: the lines collected so far stay.
OnHeaderLineKeepingLines(st, line) ==
    [page_texts |-> SavePage(st),
     current_page |-> <<PageNumber(line)>>,
     current_lines |-> st.current_lines]

\* Lines 49-58: a header line
OnHeaderLine(st, line) ==
    [page_texts |-> SavePage(st),
     current_page |-> <<PageNumber(line)>>,
     current_lines |-> << >>]

\* Lines 59-62: any other line
OnTextLine(st, line) ==
    [st EXCEPT !.current_lines = Append(st.current_lines, RemoveParens(line))]

ParseLine(st, line) ==
    IF IsHeaderLine(line) THEN OnHeaderLine(st, line) ELSE OnTextLine(st, line)

RECURSIVE ParseFrom(_, _, _)
ParseFrom(file, i, st) ==
    IF i > Len(file) THEN SavePage(st)
    ELSE ParseFrom(file, i + 1, ParseLine(st, file[i]))

parse_text_file(file) ==
    ParseFrom(file, 1, [page_texts |-> << >>, current_page |-> << >>,
                        current_lines |-> << >>])

FHeader1    == PageNoPrefix \o <<" ", "1">>
FHeader2    == <<" ">> \o PageNoPrefix \o <<"2", " ">>
FHeaderNone == PageNoPrefix
FText       == <<"T">>
FBlank      == << >>
FParens     == <<" ", "T", "(", "x", ")", "(", ")", "T">>
FNested     == <<"(", "(", "x", ")", ")", " ", "(">>
FParenHead  == <<"(", "x", ")">> \o PageNoPrefix \o <<"1">>

FileLineMenu == {FHeader1, FHeader2, FHeaderNone, FText, FBlank, FParens, FNested,
                 FParenHead}

\* The text files: every sequence of at most MaxFileLen lines of the menu.
TextFiles == UNION {[1..n -> FileLineMenu] : n \in 0..MaxFileLen}

\* A text file is chosen.
InitParse ==
    /\ content_threshold = 50
    /\ GDocsIdle
    /\ SplitterIdle
    /\ LineIdle
    /\ text_file \in TextFiles
    /\ upload_call = "none"
    /\ page_texts = << >>
    /\ cache_file = [kind |-> "absent"]
    /\ site_index = << >>
    /\ page_dict = << >>
    /\ index_fetches = 0
    /\ cache_writes = 0
    /\ cache_before = [kind |-> "absent"]
    /\ log_file = << >>
    /\ log_calls = << >>
    /\ log_before = << >>

\* parse_text_file(text_file_path)
ParseTextFile ==
    /\ upload_call = "none"
    /\ upload_call' = "parse_text_file"
    /\ page_texts' = parse_text_file(text_file)
    /\ UNCHANGED <<text_file, cache_file, site_index, page_dict, index_fetches,
                   cache_writes, cache_before, log_file, log_calls, log_before>>
    /\ UNCHANGED <<splitter_vars, line_vars, gdocs_vars>>

NextParse == ParseTextFile

SpecParse == InitParse /\ [][NextParse]_vars

-----------------------------------------------------------------------------
\* etext_upload.py: log_upload_result

MaxLogCalls == 3

\* Lines 186-195
HeaderRow == <<"timestamp", "index_title", "page_number", "page_title", "status",
               "error_message">>

\* Line 204: error_message or "", with << >> for None
ErrorText(error_message) == IF error_message = << >> THEN "" ELSE error_message[1]

\* Lines 196-205: the row of one call
DataRow(now, call) ==
    <<now, call.index_title, call.page_no, call.page_title, call.status,
      ErrorText(call.error_message)>>

\* HeaderIfNew writing the header row at every call.
HeaderEveryCall(file_exists) == <<HeaderRow>>

\* Lines 185-195: the header row is written when the file did not exist.
HeaderIfNew(file_exists) == IF file_exists THEN << >> ELSE <<HeaderRow>>

\* open(csv_file_path, "a") and the rows written: log is << >> for no file
\* and <<rows>> otherwise.
AppendRows(log, rows) == <<(IF log = << >> THEN << >> ELSE log[1]) \o rows>>

\* The arguments of a call
LogCalls == [index_title : {"Index:Test"},
             page_no : {"1", "2"},
             page_title : {"Page:Test/1"},
             status : {"success", "failure"},
             error_message : {<< >>, <<"boom">>}]

\* datetime.now().isoformat()
Timestamps == {"t1", "t2"}

\* The csv file before the first call: none, an empty one, one with rows.
LogFiles == {<< >>,
             <<<< >>>>,
             <<<<HeaderRow, <<"t0", "Index:Old", "9", "Page:Old/9", "success", "">>>>>>}

InitLog ==
    /\ content_threshold = 50
    /\ GDocsIdle
    /\ SplitterIdle
    /\ LineIdle
    /\ text_file = << >>
    /\ upload_call = "none"
    /\ page_texts = << >>
    /\ cache_file = [kind |-> "absent"]
    /\ site_index = << >>
    /\ page_dict = << >>
    /\ index_fetches = 0
    /\ cache_writes = 0
    /\ cache_before = [kind |-> "absent"]
    /\ log_file \in LogFiles
    /\ log_calls = << >>
    /\ log_before = log_file

\* Lines 169-205: log_upload_result(index_title, page_no, page_title, status,
\* error_message)
LogUploadResult ==
    /\ Len(log_calls) < MaxLogCalls
    /\ \E call \in LogCalls, now \in Timestamps :
           /\ log_file' = AppendRows(log_file,
                              HeaderIfNew(log_file # << >>) \o <<DataRow(now, call)>>)
           /\ log_calls' = Append(log_calls, [call |-> call, now |-> now])
    /\ upload_call' = "log_upload_result"
    /\ UNCHANGED <<text_file, page_texts, cache_file, site_index, page_dict,
                   index_fetches, cache_writes, cache_before, log_before>>
    /\ UNCHANGED <<splitter_vars, line_vars, gdocs_vars>>

NextLog == LogUploadResult

SpecLog == InitLog /\ [][NextLog]_vars

-----------------------------------------------------------------------------
\* etext_upload.py: get_page_titles

MaxIndexPages == 2

\* ProofreadPage(site, title)
ProofreadPage(title) == [site |-> "site", title |-> title]

CachedNumbers == {"1", "2"}

CachedTitles == {"Page:Test/1", "Page:Test/2"}

\* The mappings {page_number: page_title} that a cache file may hold.
Mappings == UNION {[S -> CachedTitles] : S \in SUBSET CachedNumbers}

\* The cache file of the index title: none; one that open() cannot read
\* (OSError); one that is not JSON (json.JSONDecodeError); one that is not
\* UTF-8 (UnicodeDecodeError); one that is JSON but no object (mapping.items()
\* raises AttributeError); one that holds a mapping.
CacheFiles ==
    {[kind |-> k] : k \in {"absent", "unreadable", "not_json", "not_utf8", "not_object"}}
        \cup {[kind |-> "mapping", mapping |-> m] : m \in Mappings}

\* The pages that idx.page_gen() yields: _num is << >> for None.
IndexPages == {[num |-> <<1>>, title |-> "Page:Test/1"],
               [num |-> <<2>>, title |-> "Page:Test/2"],
               [num |-> << >>, title |-> "Page:Test/cover"]}

\* The index page of the site: << >> when it does not exist, <<pages>> otherwise.
SiteIndexes ==
    {<< >>} \cup {<<pages>> : pages \in UNION {[1..n -> IndexPages] : n \in 0..MaxIndexPages}}

\* Line 141: {k: ProofreadPage(site, v) for k, v in mapping.items()}
PagesOfMapping(mapping) == [k \in DOMAIN mapping |-> ProofreadPage(mapping[k])]

\* Lines 157-162: mapping, the titles of the numbered pages from page i on,
\* under str(p._num)
RECURSIVE MappingFrom(_, _, _)
MappingFrom(pages, i, mapping) ==
    IF i > Len(pages) THEN mapping
    ELSE MappingFrom(pages, i + 1,
                     IF pages[i].num # << >>
                     THEN DictPut(mapping, ToString(pages[i].num[1]), pages[i].title)
                     ELSE mapping)

MappingOfIndex(pages) == MappingFrom(pages, 1, << >>)

InitTitles ==
    /\ content_threshold = 50
    /\ GDocsIdle
    /\ SplitterIdle
    /\ LineIdle
    /\ text_file = << >>
    /\ upload_call = "none"
    /\ page_texts = << >>
    /\ cache_file \in CacheFiles
    /\ site_index \in SiteIndexes
    /\ page_dict = << >>
    /\ index_fetches = 0
    /\ cache_writes = 0
    /\ cache_before = cache_file
    /\ log_file = << >>
    /\ log_calls = << >>
    /\ log_before = << >>

titles_frame == <<text_file, page_texts, site_index, cache_before, log_file, log_calls,
                  log_before, splitter_vars, line_vars, gdocs_vars>>

\* Lines 135-142: the cache file holds a mapping and the pages are built
\* from it.
GetPageTitlesFromCache ==
    /\ upload_call = "none"
    /\ cache_file.kind = "mapping"
    /\ upload_call' = "get_page_titles"
    /\ page_dict' = PagesOfMapping(cache_file.mapping)
    /\ UNCHANGED <<cache_file, index_fetches, cache_writes>>
    /\ UNCHANGED titles_frame

\* Lines 137-143: reading the cache file raises an exception that line 143
\* does not catch; it leaves get_page_titles.
GetPageTitlesRaises ==
    /\ upload_call = "none"
    /\ cache_file.kind \in {"not_utf8", "not_object"}
    /\ upload_call' = "raised"
    /\ UNCHANGED <<cache_file, page_dict, index_fetches, cache_writes>>
    /\ UNCHANGED titles_frame

\* Lines 135, 143-166: there is no cache file, or it is deleted at line 147;
\* the index is asked for, and when it exists its mapping is cached.
GetPageTitlesFromIndex ==
    /\ upload_call = "none"
    /\ cache_file.kind \in {"absent", "unreadable", "not_json"}
    /\ upload_call' = "get_page_titles"
    /\ index_fetches' = index_fetches + 1
    /\ IF site_index = << >>
       THEN /\ page_dict' = << >>
            /\ cache_file' = [kind |-> "absent"]
            /\ UNCHANGED cache_writes
       ELSE /\ page_dict' = PagesOfMapping(MappingOfIndex(site_index[1]))
            /\ cache_file' = [kind |-> "mapping", mapping |-> MappingOfIndex(site_index[1])]
            /\ cache_writes' = cache_writes + 1
    /\ UNCHANGED titles_frame

NextTitles ==
    \/ GetPageTitlesFromCache
    \/ GetPageTitlesRaises
    \/ GetPageTitlesFromIndex

SpecTitles == InitTitles /\ [][NextTitles]_vars

-----------------------------------------------------------------------------
\* upload_to_google_docs.py: GoogleDocsUploader

MaxUploadCalls == 4

TextIds == {"D1", "D2"}

\* x in xs, for a list xs
InList(x, xs) == \E i \in 1..Len(xs) : xs[i] = x

\* Lines 133-138: the progress of a first run (tengyur_folder_id, which
\* process_text_file does not read, is left out)
DefaultProgress == [completed |-> << >>, failed |-> << >>, last_processed |-> << >>]

\* Lines 124-138: load_progress; the file is absent, cannot be loaded
\* ("corrupt"), or holds the JSON that an earlier save or somebody else left.
load_progress(file) == IF file.kind = "data" THEN file.data ELSE DefaultProgress

\* Lines 140-146: save_progress.  The file is written ("saved"); open() fails
\* and the file stays as it was ("unwritten"); or json.dump fails after open()
\* has truncated the file ("truncated").  The exception is logged, not raised.
SaveOutcomes == {"saved", "unwritten", "truncated"}

save_progress(file, data, outcome) ==
    CASE outcome = "saved"     -> [kind |-> "data", data |-> data]
      [] outcome = "unwritten" -> file
      [] outcome = "truncated" -> [kind |-> "corrupt"]

\* AlreadyCompleted looking at last_processed only.
AlreadyCompletedLast(text_id, data) == data.last_processed = <<text_id>>

\* Line 292: text_id in self.progress_data["completed"]
AlreadyCompleted(text_id, data) == InList(text_id, data.completed)

\* The progress files that an earlier run may have left.
ProgressFiles ==
    {[kind |-> "absent"], [kind |-> "corrupt"],
     [kind |-> "data", data |-> [failed |-> << >>]],
     [kind |-> "data", data |-> DefaultProgress],
     [kind |-> "data", data |-> [completed |-> <<"D1">>, failed |-> <<"D2">>,
                                 last_processed |-> <<"D1">>]],
     [kind |-> "data", data |-> [completed |-> <<"D2", "D1">>, failed |-> << >>,
                                 last_processed |-> <<"D1">>]]}

\* Lines 24-57: GoogleDocsUploader(credentials_path)
InitGDocs ==
    /\ content_threshold = 50
    /\ SplitterIdle
    /\ LineIdle
    /\ UploadIdle
    /\ progress_file \in ProgressFiles
    /\ progress_data = load_progress(progress_file)
    /\ drive_docs = << >>
    /\ gdocs_calls = 0

gdocs_frame == <<splitter_vars, line_vars, upload_vars>>

\* Lines 24-57: the process ends and a later run makes a new uploader, which
\* loads the progress file.
NewUploader ==
    /\ progress_data' = load_progress(progress_file)
    /\ UNCHANGED <<progress_file, drive_docs, gdocs_calls>>
    /\ UNCHANGED gdocs_frame

\* Line 292: the progress loaded has no "completed" and the lookup raises
\* KeyError.
ProcessTextFileRaises ==
    /\ gdocs_calls < MaxUploadCalls
    /\ "completed" \notin DOMAIN progress_data
    /\ gdocs_calls' = gdocs_calls + 1
    /\ UNCHANGED <<progress_data, progress_file, drive_docs>>
    /\ UNCHANGED gdocs_frame

\* Lines 292-294: the text id is completed and the call returns True.
SkipCompleted ==
    /\ gdocs_calls < MaxUploadCalls
    /\ "completed" \in DOMAIN progress_data
    /\ \E text_id \in TextIds : AlreadyCompleted(text_id, progress_data)
    /\ gdocs_calls' = gdocs_calls + 1
    /\ UNCHANGED <<progress_data, progress_file, drive_docs>>
    /\ UNCHANGED gdocs_frame

\* Lines 302-304 and 309-314: the text id is recorded as failed and the
\* progress is saved.
RecordFailed(text_id, outcome) ==
    /\ progress_data' = [progress_data EXCEPT !.failed = Append(@, text_id)]
    /\ progress_file' = save_progress(progress_file, progress_data', outcome)

\* Lines 300-304: read_text_file returns no content.
TextUnreadable ==
    /\ gdocs_calls < MaxUploadCalls
    /\ "completed" \in DOMAIN progress_data
    /\ \E text_id \in TextIds, outcome \in SaveOutcomes :
           /\ ~AlreadyCompleted(text_id, progress_data)
           /\ RecordFailed(text_id, outcome)
    /\ gdocs_calls' = gdocs_calls + 1
    /\ UNCHANGED drive_docs
    /\ UNCHANGED gdocs_frame

\* Lines 307-314 and 267-287: create_google_doc returns None after an
\* HttpError, raised by files().create (no document) or by batchUpdate (the
\* document exists, without text).
CreateDocFails ==
    /\ gdocs_calls < MaxUploadCalls
    /\ "completed" \in DOMAIN progress_data
    /\ \E text_id \in TextIds, outcome \in SaveOutcomes, created \in BOOLEAN :
           /\ ~AlreadyCompleted(text_id, progress_data)
           /\ RecordFailed(text_id, outcome)
           /\ drive_docs' = IF created THEN Append(drive_docs, text_id) ELSE drive_docs
    /\ gdocs_calls' = gdocs_calls + 1
    /\ UNCHANGED gdocs_frame

\* Lines 307 and 316-327: the document is created, the text id is appended to
\* "completed" and the progress is saved.
DocCreated ==
    /\ gdocs_calls < MaxUploadCalls
    /\ "completed" \in DOMAIN progress_data
    /\ \E text_id \in TextIds, outcome \in SaveOutcomes :
           /\ ~AlreadyCompleted(text_id, progress_data)
           /\ drive_docs' = Append(drive_docs, text_id)
           /\ progress_data' = [progress_data EXCEPT
                                   !.completed = Append(@, text_id),
                                   !.last_processed = <<text_id>>]
           /\ progress_file' = save_progress(progress_file, progress_data', outcome)
    /\ gdocs_calls' = gdocs_calls + 1
    /\ UNCHANGED gdocs_frame

NextGDocs ==
    \/ NewUploader
    \/ ProcessTextFileRaises
    \/ SkipCompleted
    \/ TextUnreadable
    \/ CreateDocFails
    \/ DocCreated

SpecGDocs == InitGDocs /\ [][NextGDocs]_vars

-----------------------------------------------------------------------------
\* Vocabulary of the properties

Last(s) == s[Len(s)]

\* A "Page: N" label, as against a single character.
IsPageLabel(c) == Len(c) > 1

\* The line with every label replaced by "#".
MaskLabels(s) == [i \in 1..Len(s) |-> IF IsPageLabel(s[i]) THEN "#" ELSE s[i]]

\* The line with every bare page marker replaced by "#".
RECURSIVE MaskMarkersFrom(_, _)
MaskMarkersFrom(s, i) ==
    IF i > Len(s) THEN << >>
    ELSE IF MatchBracketPage(s, i) > 0
         THEN <<"#">> \o MaskMarkersFrom(s, i + MatchBracketPage(s, i))
         ELSE <<s[i]>> \o MaskMarkersFrom(s, i + 1)

MaskMarkers(s) == MaskMarkersFrom(s, 1)

\* The number of bare page markers of the line.
CountMarkers(s) == Len(SelectSeq(MaskMarkers(s), LAMBDA c : c = "#"))

\* The lines of the written buffers, in the order of the writes.
RECURSIVE ConcatBuffers(_)
ConcatBuffers(w) == IF w = << >> THEN << >> ELSE Head(w).lines \o ConcatBuffers(Tail(w))

\* The labels of a buffer, top to bottom and left to right.
LabelsOf(buf) == SelectSeq(JoinLines(buf), IsPageLabel)

\* Page: 1, Page: 2, ..., Page: n
CountingLabels(n) == [i \in 1..n |-> PageLabel(i)]

\* The section ids of the written buffers, in the order of the writes.
SectionsOf(w) == [i \in 1..Len(w) |-> w[i].section]

\* The section ids process_line finds on the lines from position i on.
RECURSIVE TokensFrom(_, _)
TokensFrom(ls, i) ==
    IF i > Len(ls) THEN << >>
    ELSE process_line(ls[i]).section_token \o TokensFrom(ls, i + 1)

\* Position of the last line of cl that holds a label, 0 when none.
RECURSIVE LastLabelLine(_, _)
LastLabelLine(cl, i) ==
    IF i = 0 THEN 0
    ELSE IF \E k \in 1..Len(cl[i]) : IsPageLabel(cl[i][k]) THEN i
    ELSE LastLabelLine(cl, i - 1)

WithoutLastLabelLine(cl) ==
    IF LastLabelLine(cl, Len(cl)) = 0 THEN cl
    ELSE RemoveAt(cl, LastLabelLine(cl, Len(cl)))

-----------------------------------------------------------------------------
\* C1: the buffers process_file wrote, concatenated in the order of the
\* writes, hold each line of the document exactly once: as many lines as the
\* document has, the k-th being the processed k-th line of the document with
\* its page markers replaced by labels.
C1_RoundTrip ==
    pc = "returned" =>
        \A out \in {ConcatBuffers(written)} :
            /\ Len(out) = Len(lines)
            /\ \A k \in 1..Len(lines) :
                   MaskLabels(out[k]) = MaskMarkers(process_line(lines[k]).line)

\* C2: a section token arrives while a section is open and a page marker line
\* is pending.
BoundaryWithPending ==
    /\ pc = "scan"
    /\ idx <= Len(lines)
    /\ section_counter > 0
    /\ last_page_marker_line # << >>
    /\ process_line(lines[idx]).section_token # << >>

\* C2: at such a boundary the most recent page marker line is removed from the
\* closing buffer before it is written, the new buffer starts with a line
\* labelled Page: 1, and the page counter of the new buffer goes on from 2.
C2_RelocationAtBoundary ==
    [][BoundaryWithPending =>
          /\ Last(written').lines = WithoutLastLabelLine(current_lines)
          /\ \E k \in 1..Len(current_lines'[1]) : current_lines'[1][k] = PageLabel(1)
          /\ page_counter' = 2 + CountMarkers(process_line(lines[idx]).line)]_vars

\* C3: in every buffer, written or open, the labels read Page: 1, Page: 2, ...
\* in order, none repeated and none skipped.
C3_LabelsCountFromOne ==
    \A buf \in {written[i].lines : i \in 1..Len(written)} \cup {current_lines} :
        LabelsOf(buf) = CountingLabels(Len(LabelsOf(buf)))

\* C4: no two writes of one process_file go to the same path.
C4_DistinctPaths ==
    \A i, j \in 1..Len(output_files) : i # j => output_files[i] # output_files[j]

\* C5: the buffers are written under the section ids of the document in the
\* order of their lines, after BASE when the lead-in was split off (and under
\* UNKNOWN alone when the document has lines and no section token), and the
\* returned paths are the paths of these writes in the same order.
C5_SectionOrder ==
    pc = "returned" =>
        \A toks \in {TokensFrom(lines, 1)} :
            /\ IF lines = << >> THEN written = << >>
               ELSE IF toks = << >> THEN SectionsOf(written) = <<"UNKNOWN">>
               ELSE \/ SectionsOf(written) = toks
                    \/ SectionsOf(written) = <<"BASE">> \o toks
            /\ output_files = [i \in 1..Len(written) |-> written[i].path]

\* C5: a document split into the lead-in and two sections.
C5_Witness ==
    /\ pc = "returned"
    /\ SectionsOf(written) = <<"BASE", "D1", "D2">>

\* Position of the first line from i on for which process_line returns a
\* section id, 0 when none.
RECURSIVE FirstTokenLine(_, _)
FirstTokenLine(ls, i) ==
    IF i > Len(ls) THEN 0
    ELSE IF process_line(ls[i]).section_token # << >> THEN i
    ELSE FirstTokenLine(ls, i + 1)

\* The number of meaningful lines of ls before position n.
MeaningfulBefore(ls, n) == Cardinality({k \in 1..(n - 1) : is_meaningful_line(ls[k])})

\* C6: the lead-in is written as BASE, followed by the buffer of the first
\* section, if and only if the first line with a section token is not the first
\* line of the document and at least content_threshold meaningful lines
\* precede it.
C6_LeadInSplit ==
    pc = "returned" =>
        \A f \in {FirstTokenLine(lines, 1)} :
            (/\ f > 0
             /\ Len(written) >= 2
             /\ written[1].section = "BASE"
             /\ <<written[2].section>> = process_line(lines[f]).section_token)
            <=> (f > 1 /\ MeaningfulBefore(lines, f) >= content_threshold)

\* C7 as claimed: every process_file ends with a write of the open buffer,
\* empty or not, so every document yields an output file.
C7_AlwaysFlushed ==
    pc = "returned" =>
        /\ Len(output_files) >= 1
        /\ Last(written).section = current_section
        /\ Last(written).lines = current_lines

\* C7 as amended: at the end of the document the open buffer is written under
\* the current section id exactly when it is not empty; a document with a
\* line yields an output file, the empty document yields none.
C7_FlushedUnlessEmpty ==
    pc = "returned" =>
        IF lines = << >>
        THEN current_lines = << >> /\ written = << >> /\ output_files = << >>
        ELSE /\ current_lines # << >>
             /\ Len(output_files) >= 1
             /\ Last(written).section = current_section
             /\ Last(written).lines = current_lines
             /\ Last(output_files) = Last(written).path

\* C7: the end of a document of two lines without a section token.
C7_Witness ==
    /\ pc = "returned"
    /\ Len(lines) = 2
    /\ SectionsOf(written) = <<"UNKNOWN">>
    /\ Len(written[1].lines) = 2

\* C8 as claimed: while no section has been opened the bare page markers stay
\* in the buffer and the page counter does not move.
C8_UnsubstitutedBeforeSection ==
    (pc = "scan" /\ section_counter = 0) =>
        /\ page_counter = 1
        /\ current_lines = [k \in 1..(idx - 1) |-> process_line(lines[k]).line]

\* C8 as amended: while no section has been opened every bare page marker of
\* a scanned line is replaced by the next label and advances the page counter;
\* only the pending page marker line is not recorded.
C8_SubstitutedBeforeSection ==
    (pc = "scan" /\ section_counter = 0) =>
        /\ last_page_marker_line = << >>
        /\ written = << >>
        /\ Len(current_lines) = idx - 1
        /\ \A k \in 1..Len(current_lines) :
               /\ CountMarkers(current_lines[k]) = 0
               /\ MaskLabels(current_lines[k]) = MaskMarkers(process_line(lines[k]).line)
        /\ LabelsOf(current_lines) = CountingLabels(page_counter - 1)

\* C8: a page marker was scanned before any section token.
C8_Witness ==
    /\ pc = "scan"
    /\ section_counter = 0
    /\ page_counter > 1
    /\ LabelsOf(current_lines) # << >>

\* str.split("\n") of a file content
RECURSIVE SplitNewlines(_)
SplitNewlines(content) ==
    IF FirstOf(content, 1, {"\n"}) = 0 THEN <<content>>
    ELSE <<SubSeq(content, 1, FirstOf(content, 1, {"\n"}) - 1)>>
         \o SplitNewlines(SubSeq(content, FirstOf(content, 1, {"\n"}) + 1, Len(content)))

\* The content is the lines joined by newlines.
FileHolds(content, ls) ==
    IF ls = << >> THEN content = << >> ELSE SplitNewlines(content) = ls

\* C9: every write goes to <stem>.txt for UNKNOWN and BASE and to
\* <stem>_<section>.txt otherwise; the output directory holds these files and
\* no other, each with the lines of the latest buffer written to it, joined by
\* newlines.
C9_WriteSectionFile ==
    /\ \A i \in 1..Len(written) :
           written[i].path =
               IF written[i].section \in {"UNKNOWN", "BASE"}
               THEN input_file \o ".txt"
               ELSE input_file \o "_" \o written[i].section \o ".txt"
    /\ DOMAIN fs = {written[i].path : i \in 1..Len(written)}
    /\ \A i \in 1..Len(written) :
           (\A j \in (i + 1)..Len(written) : written[j].path # written[i].path)
               => FileHolds(fs[written[i].path], written[i].lines)

\* C9: a BASE buffer was written and a file was replaced by a later write.
C9_Witness ==
    /\ pc = "returned"
    /\ Len(written) = 3
    /\ written[1].section = "BASE"
    /\ written[2].path = written[3].path
    /\ written[2].lines # written[3].lines

\* C10: when process_all_files has ended, no input file of the batch is left
\* unprocessed because of the failure of another file.
C10_BatchContinues ==
    batch_pc \in {"done", "aborted"} =>
        \A f \in InputFileSet : file_status[f] # "pending"

-----------------------------------------------------------------------------
\* The methods of the processor, line by line

PatternNames == {"SECTION_TOKEN_RE", "SECTION_DASH_TOKEN_RE", "BRACKET_WITH_DOT_RE",
                 "BRACKET_PAGE_RE", "TEXT_VARIANT_RE"}

\* None of the five patterns matches anywhere in the line.
NoMarkup(s) == \A re \in PatternNames : ReSearch(re, s) = 0

\* The line without its dotted markers and its bare page markers.
RECURSIVE DeleteMarkersFrom(_, _)
DeleteMarkersFrom(s, i) ==
    IF i > Len(s) THEN << >>
    ELSE IF MatchBracketWithDot(s, i) > 0
         THEN DeleteMarkersFrom(s, i + MatchBracketWithDot(s, i))
         ELSE IF MatchBracketPage(s, i) > 0
              THEN DeleteMarkersFrom(s, i + MatchBracketPage(s, i))
              ELSE <<s[i]>> \o DeleteMarkersFrom(s, i + 1)

DeleteMarkers(s) == DeleteMarkersFrom(s, 1)

\* The section id that the token at position p of the line stands for.
TokenId(s, p) == Str(SubSeq(s, p + 1, FirstOf(s, p, {"}"}) - 1))

\* C11: on a line in which none of the patterns matches (plain text, or
\* malformed markup such as an unterminated brace), process_line returns the
\* line unchanged, no section id and has_page_marker false.
C11_UnmarkedLineUnchanged ==
    (line_call = "process_line" /\ NoMarkup(raw_line)) =>
        line_result[1] = [line |-> raw_line,
                          section_token |-> << >>,
                          has_page_marker |-> FALSE]

\* process_line has returned for a line with an unterminated brace.
C11_Witness ==
    /\ line_call = "process_line"
    /\ NoMarkup(raw_line)
    /\ FirstOf(raw_line, 1, {"{"}) > 0
    /\ line_result[1].line = raw_line

\* C12: process_line keeps every bare page marker of the raw line and returns
\* has_page_marker true for every raw line that holds one.
C12_BareMarkerKept ==
    (line_call = "process_line" /\ CountMarkers(raw_line) > 0) =>
        /\ line_result[1].has_page_marker
        /\ CountMarkers(line_result[1].line) >= CountMarkers(raw_line)

\* C13: the line that process_line returns holds no comma-brace group, and
\* process_line applied to it returns it unchanged.
C13_VariantCollapseIdempotent ==
    (line_call = "process_line_again") =>
        /\ ReSearch("TEXT_VARIANT_RE", line_result[1].line) = 0
        /\ line_result[2].line = line_result[1].line

\* C14: the line that process_line returns holds no dotted marker, and no
\* label is written for one: the labels written into the returned line are
\* as many as its bare page markers and leave no dotted marker behind.
C14_DottedMarkerDeleted ==
    /\ (line_call = "process_line") =>
           ReSearch("BRACKET_WITH_DOT_RE", line_result[1].line) = 0
    /\ (line_call = "process_line_replace") =>
           /\ ReSearch("BRACKET_WITH_DOT_RE", line_result[2].line) = 0
           /\ Len(SelectSeq(line_result[2].line, IsPageLabel))
                  = CountMarkers(line_result[1].line)

\* C15: process_line returns the id of the first section token of the raw
\* line, and no id when the raw line has no section token (a dash-tagged
\* token yields none); the returned line holds no section token and no
\* dash-tagged token.
C15_SectionTokenExtracted ==
    (line_call = "process_line") =>
        /\ \A p \in {ReSearch("SECTION_TOKEN_RE", raw_line)} :
               line_result[1].section_token =
                   IF p = 0 THEN << >> ELSE <<TokenId(raw_line, p)>>
        /\ ReSearch("SECTION_TOKEN_RE", line_result[1].line) = 0
        /\ ReSearch("SECTION_DASH_TOKEN_RE", line_result[1].line) = 0

\* The labels Page: c, Page: c+1, ..., Page: c+k-1
LabelsCountingFrom(c, k) == [i \in 1..k |-> PageLabel(c + i - 1)]

\* replace_page_markers(line, c) returned r: the k bare markers of the line
\* are replaced left to right by Page: c .. Page: c+k-1, the other text is
\* unchanged and the counter returned is c + k.
ReplacedAsCounted(line, c, r) ==
    /\ SelectSeq(r.line, IsPageLabel) = LabelsCountingFrom(c, CountMarkers(line))
    /\ MaskLabels(r.line) = MaskMarkers(line)
    /\ r.page_counter = c + CountMarkers(line)
    /\ (CountMarkers(line) = 0) => (r.line = line /\ r.page_counter = c)

\* C16: replace_page_markers(line, c) on a line with k bare markers replaces
\* them, left to right, by Page: c, ..., Page: c+k-1, leaves the other text
\* unchanged and returns the counter c + k; with k = 0 it returns the line
\* and c unchanged.
C16_ReplacePageMarkers ==
    /\ (line_call = "replace_page_markers") =>
           ReplacedAsCounted(raw_line, start_counter, line_result[1])
    /\ (line_call = "process_line_replace") =>
           ReplacedAsCounted(line_result[1].line, start_counter, line_result[2])

\* replace_page_markers has returned for a line with two bare markers and a
\* counter above 1.
C16_Witness ==
    /\ line_call = "replace_page_markers"
    /\ CountMarkers(raw_line) = 2
    /\ start_counter = 2
    /\ line_result[1].page_counter = 4
    /\ Len(line_result[1].line) > 2

\* Empty, whitespace only, or made of markers and whitespace only.
OnlyMarkersAndWhitespace(s) == Strip(DeleteMarkers(s)) = << >>

\* C17 as stated: is_meaningful_line is true exactly when the line without
\* its dotted markers and its bare page markers, trimmed, has a character.
C17_MeaningfulWithoutMarkers ==
    (line_call = "is_meaningful_line") =>
        (line_result[1] <=> Len(Strip(DeleteMarkers(raw_line))) > 0)

\* C17: is_meaningful_line is true exactly when deleting the bare page
\* markers of the line, then the dotted markers of what is left, and
\* trimming leaves a character; it is false for the empty line, a line of
\* whitespace and a line made of markers and whitespace only.
C17_MeaningfulBareThenDotted ==
    (line_call = "is_meaningful_line") =>
        /\ line_result[1] <=>
               Len(Strip(ReDelete("BRACKET_WITH_DOT_RE",
                                  ReDelete("BRACKET_PAGE_RE", raw_line)))) > 0
        /\ OnlyMarkersAndWhitespace(raw_line) => ~line_result[1]

\* is_meaningful_line has returned false for a line in which the deletion of
\* a bare marker put a dotted marker together.
C17_Witness ==
    /\ line_call = "is_meaningful_line"
    /\ ReSearch("BRACKET_WITH_DOT_RE", raw_line) = 0
    /\ ReSearch("BRACKET_WITH_DOT_RE", ReDelete("BRACKET_PAGE_RE", raw_line)) > 0
    /\ ~OnlyMarkersAndWhitespace(raw_line)
    /\ line_result[1] = FALSE

-----------------------------------------------------------------------------
\* etext_upload.py

\* The positions of the header lines of the file.
HeaderLines(file) == {i \in 1..Len(file) : IsHeaderLine(file[i])}

\* The position of the first header line after line i, one past the end of the
\* file when there is none.
NextHeader(file, i) ==
    CHOOSE j \in {h \in HeaderLines(file) : h > i} \cup {Len(file) + 1} :
        \A h \in HeaderLines(file) : h > i => j <= h

\* The text between the header line i and the next header line or the end of
\* the file: parenthesised spans removed, joined by newlines, stripped.
TextAfter(file, i) ==
    StripText(JoinNewline([k \in 1..(NextHeader(file, i) - i - 1) |->
                              RemoveParens(file[i + k])]))

\* The page number that the header line i names.
NumberAt(file, i) == Str(PageNumber(file[i]))

\* The last header line that names the page number.
LastHeaderOf(file, number) ==
    CHOOSE i \in HeaderLines(file) :
        /\ NumberAt(file, i) = number
        /\ \A h \in HeaderLines(file) : NumberAt(file, h) = number => h <= i

\* No opening parenthesis of the text is closed on its own line.
NoSpanOnALine(t) ==
    \A p \in 1..Len(t), q \in 1..Len(t) :
        (p < q /\ t[p] = "(" /\ t[q] = ")") => \E r \in p..q : t[r] = "\n"

\* C18: parse_text_file maps each page number to the text between its header
\* line and the next header line or the end of the file (for a number with
\* several header lines, the last of them): those lines with the parenthesised
\* spans removed, joined by newlines and stripped.  The page numbers are those
\* of the header lines, so that no header line and no line before the first
\* header line is part of a text.
C18_PagesOfTextFile ==
    (upload_call = "parse_text_file") =>
        /\ DOMAIN page_texts = {NumberAt(text_file, i) : i \in HeaderLines(text_file)}
        /\ \A number \in DOMAIN page_texts :
               /\ page_texts[number] = TextAfter(text_file, LastHeaderOf(text_file, number))
               /\ NoSpanOnALine(page_texts[number])

\* parse_text_file has returned for a file of a line without page, a header
\* line and a line with parenthesised spans.
C18_Witness ==
    /\ upload_call = "parse_text_file"
    /\ text_file = <<FText, FHeader1, FParens>>
    /\ DOMAIN page_texts = {"1"}
    /\ page_texts["1"] = <<"T", "T">>

\* The data rows of the calls so far, in call order, with the empty string
\* where a call gave no error message.
RowsOfCalls ==
    [i \in 1..Len(log_calls) |->
        <<log_calls[i].now,
          log_calls[i].call.index_title,
          log_calls[i].call.page_no,
          log_calls[i].call.page_title,
          log_calls[i].call.status,
          IF log_calls[i].call.error_message = << >> THEN ""
          ELSE log_calls[i].call.error_message[1]>>]

\* C19: log_upload_result writes the header row exactly when the log file
\* does not exist at the call, and then one data row: after n >= 1 calls that
\* began without a log file, the log is the header row followed by the n data
\* rows in call order; a log file that was there before the first call gets
\* the n data rows and no header row.
C19_HeaderThenRows ==
    /\ (log_calls = << >>) => (log_file = log_before)
    /\ (log_calls # << >> /\ log_before = << >>) =>
           log_file = <<<<HeaderRow>> \o RowsOfCalls>>
    /\ (log_calls # << >> /\ log_before # << >>) =>
           log_file = <<log_before[1] \o RowsOfCalls>>

\* Two calls have been made from an absent log file, the first without an
\* error message.
C19_Witness ==
    /\ log_before = << >>
    /\ Len(log_calls) = 2
    /\ log_calls[1].call.error_message = << >>
    /\ log_calls[2].call.error_message # << >>
    /\ Len(log_file[1]) = 3
    /\ log_file[1][2][6] = ""

\* C20: when the cache file holds a mapping, get_page_titles returns one page
\* per entry, built from the cached title under the cached number, without a
\* fetch of the index and without a write of the cache; when the cache file
\* is unreadable or invalid, it returns after the file was replaced by the
\* mapping fetched from the index.
C20_CacheOrRefetch ==
    (upload_call \in {"get_page_titles", "raised"}) =>
        /\ (cache_before.kind = "mapping") =>
               /\ upload_call = "get_page_titles"
               /\ DOMAIN page_dict = DOMAIN cache_before.mapping
               /\ \A k \in DOMAIN page_dict :
                      page_dict[k].title = cache_before.mapping[k]
               /\ index_fetches = 0
               /\ cache_writes = 0
               /\ cache_file = cache_before
        /\ (cache_before.kind \in {"unreadable", "not_json", "not_utf8", "not_object"}) =>
               /\ upload_call = "get_page_titles"
               /\ index_fetches = 1
               /\ cache_writes = 1
               /\ cache_file.kind = "mapping"

-----------------------------------------------------------------------------
\* C21: a call of process_text_file adds a Google Doc only for a text id that
\* is not listed in progress_data["completed"], whether the entry was appended
\* by this uploader or loaded from the progress file of an earlier run; a call
\* that changes "completed" appends one text id that was not listed; and
\* "completed" never lists a text id twice.
CompletedOnce ==
    "completed" \in DOMAIN progress_data =>
        \A i, j \in 1..Len(progress_data.completed) :
            progress_data.completed[i] = progress_data.completed[j] => i = j

C21_CallStep ==
    gdocs_calls' # gdocs_calls =>
        /\ drive_docs' # drive_docs =>
              /\ "completed" \in DOMAIN progress_data
              /\ drive_docs' = Append(drive_docs, Last(drive_docs'))
              /\ ~InList(Last(drive_docs'), progress_data.completed)
        /\ progress_data' # progress_data /\ "completed" \in DOMAIN progress_data =>
              \/ progress_data'.completed = progress_data.completed
              \/ \E text_id \in TextIds :
                    /\ ~InList(text_id, progress_data.completed)
                    /\ progress_data'.completed = Append(progress_data.completed, text_id)

C21_NoRepeatedWork == []CompletedOnce /\ [][C21_CallStep]_vars

C21_Witness ==
    /\ progress_data = [completed |-> <<"D1", "D2">>, failed |-> <<"D2">>,
                        last_processed |-> <<"D2">>]
    /\ drive_docs = <<"D2">>
    /\ gdocs_calls = 2

-----------------------------------------------------------------------------
\* C22: the first section token arrives, the lead-in is split off, and the
\* line accumulated last came from a line with a bare page marker.
SplitWithMarkerLine ==
    /\ pc = "scan"
    /\ 1 < idx /\ idx <= Len(lines)
    /\ section_counter = 0
    /\ should_split_before_first
    /\ process_line(lines[idx]).section_token # << >>
    /\ process_line(lines[idx - 1]).has_page_marker

\* C22: at such a split the line accumulated last is taken out of the buffer
\* written as BASE, the buffer of the first section starts with that line
\* labelled Page: 1, and its page counter goes on from 2.
C22_RelocationAtSplit ==
    [][SplitWithMarkerLine =>
          /\ Last(written').section = "BASE"
          /\ Last(written').lines = SubSeq(current_lines, 1, Len(current_lines) - 1)
          /\ Len(current_lines') = 2
          /\ MaskLabels(current_lines'[1]) = MaskLabels(Last(current_lines))
          /\ \E k \in 1..Len(current_lines'[1]) : current_lines'[1][k] = PageLabel(1)
          /\ page_counter' = 2 + CountMarkers(process_line(lines[idx]).line)]_vars

-----------------------------------------------------------------------------
\* C23: a section token arrives while a section is open and no line of the
\* closing buffer holds a bare page marker.
BoundaryWithoutMarkerLine ==
    /\ pc = "scan"
    /\ idx <= Len(lines)
    /\ section_counter > 0
    /\ process_line(lines[idx]).section_token # << >>
    /\ LastMarkerLine(current_lines, Len(current_lines)) = 0

\* C23: at such a boundary the closing buffer is written whole and nothing is
\* pushed into the new buffer: after the step it holds the line of the token
\* alone, and its page counter has counted from 1.
C23_NoRelocationWithoutMarkerLine ==
    [][BoundaryWithoutMarkerLine =>
          /\ Last(written').lines = current_lines
          /\ Len(current_lines') = 1
          /\ page_counter' = 1 + CountMarkers(process_line(lines[idx]).line)]_vars

-----------------------------------------------------------------------------
\* C24: the first section token arrives and the lead-in is not split off.
FirstTokenWithoutSplit ==
    /\ pc = "scan"
    /\ idx <= Len(lines)
    /\ section_counter = 0
    /\ ~should_split_before_first
    /\ process_line(lines[idx]).section_token # << >>

\* C24: the first section token writes nothing when the lead-in is not split
\* off: the buffer and the page counter go on as for a line without a token
\* (the line is appended, the counter advances by its page markers), the
\* current section becomes the id of the token and section_counter 1.
C24_FirstTokenStep ==
    FirstTokenWithoutSplit =>
        /\ written' = written
        /\ output_files' = output_files
        /\ fs' = fs
        /\ Len(current_lines') = Len(current_lines) + 1
        /\ SubSeq(current_lines', 1, Len(current_lines)) = current_lines
        /\ page_counter' = page_counter + CountMarkers(process_line(lines[idx]).line)
        /\ <<current_section'>> = process_line(lines[idx]).section_token
        /\ section_counter' = 1
        /\ last_page_marker_line' =
               IF process_line(lines[idx]).has_page_marker THEN <<lines[idx]>>
               ELSE last_page_marker_line

\* C24: so, once such a document is processed, the lines before the first
\* token stand at the head of the first buffer written, which is the buffer of
\* the first section, and no buffer is written under UNKNOWN or BASE.
C24_LeadInUnderFirstSection ==
    pc = "returned" /\ ~should_split_before_first =>
        \A f \in {FirstTokenLine(lines, 1)} :
            f > 0 =>
                /\ written # << >>
                /\ <<written[1].section>> = process_line(lines[f]).section_token
                /\ Len(written[1].lines) >= f
                /\ \A k \in 1..f :
                       MaskLabels(written[1].lines[k]) = MaskMarkers(process_line(lines[k]).line)
                /\ \A i \in 1..Len(written) : written[i].section \notin {"UNKNOWN", "BASE"}
                /\ OutputName(input_file, "UNKNOWN") \notin DOMAIN fs

C24_NoFlushAtFirstToken == []C24_LeadInUnderFirstSection /\ [][C24_FirstTokenStep]_vars

\* C24: a document whose second line holds its first section token, processed
\* without a split; both lines are in the one buffer written.
C24_Witness ==
    /\ pc = "returned"
    /\ ~should_split_before_first
    /\ Len(lines) >= 2
    /\ FirstTokenLine(lines, 1) = 2
    /\ Len(written) = 1
    /\ Len(written[1].lines) = Len(lines)

-----------------------------------------------------------------------------
\* C25: section_counter is 0 until the first line for which process_line
\* returns a section id has been scanned, and 1 from then on.
C25_CounterOfFirstToken ==
    pc \in {"scan", "returned"} =>
        \A f \in {FirstTokenLine(lines, 1)} :
            section_counter = IF 0 < f /\ f < idx THEN 1 ELSE 0

\* C25: at most one buffer of a document is written under BASE.
C25_OneBaseFlush ==
    Cardinality({i \in 1..Len(written) : written[i].section = "BASE"}) <= 1

\* C25: a write under BASE happens at the first section token only, with the
\* split decided before the scan; every later section token writes the open
\* buffer under the current section and opens the section of the token.
C25_TokenStep ==
    pc = "scan" /\ idx <= Len(lines) =>
        /\ written' # written /\ Last(written').section = "BASE" =>
              /\ should_split_before_first
              /\ idx = FirstTokenLine(lines, 1)
        /\ process_line(lines[idx]).section_token # << >> /\ idx > FirstTokenLine(lines, 1) =>
              /\ section_counter = 1
              /\ Len(written') = Len(written) + 1
              /\ Last(written').section = current_section
              /\ <<current_section'>> = process_line(lines[idx]).section_token

C25_HeuristicAtFirstTokenOnly ==
    /\ []C25_CounterOfFirstToken
    /\ []C25_OneBaseFlush
    /\ [][C25_TokenStep]_vars

\* C25: the lead-in was written as BASE at the first token and the first
\* section at the second token.
C25_Witness ==
    /\ pc = "scan"
    /\ idx > Len(lines)
    /\ SectionsOf(written) = <<"BASE", "D1">>
    /\ current_section = "D2"
    /\ section_counter = 1

-----------------------------------------------------------------------------
\* C26: the section id that process_line returns is the id of a section token
\* that stands in the raw line, and has_page_marker is set only when a bare
\* page marker stands in the raw line.
C26_RecognizedVerbatim ==
    (line_call = "process_line") =>
        /\ line_result[1].section_token # << >> =>
               \E p \in 1..Len(raw_line) :
                   /\ MatchSectionToken(raw_line, p) > 0
                   /\ <<TokenId(raw_line, p)>> = line_result[1].section_token
        /\ line_result[1].has_page_marker =>
               \E p \in 1..Len(raw_line) : MatchBracketPage(raw_line, p) > 0

-----------------------------------------------------------------------------
\* C27: in a batch over one output directory, empty at the start, a write of
\* process_file goes to a path that no other input file of the batch has
\* written: the path is new in the directory, or this input file wrote it.
C27_InputFilesIndependent ==
    [][batch_pc = "loop" /\ pc = "scan" /\ written' # written =>
          \/ Last(written').path \notin DOMAIN fs
          \/ \E i \in 1..Len(written) : written[i].path = Last(written').path]_vars

-----------------------------------------------------------------------------
\* No line of the buffer holds a bare page marker.
NoBareMarker(buf) == \A k \in 1..Len(buf) : ReSearch("BRACKET_PAGE_RE", buf[k]) = 0

\* C28: at every point of the scan and after it, no line of the open buffer
\* holds a bare page marker, the line pushed into a new buffer at a boundary
\* included, and neither does any buffer written nor any output file.
C28_NoBareMarkerKept ==
    /\ NoBareMarker(current_lines)
    /\ \A i \in 1..Len(written) : NoBareMarker(written[i].lines)
    /\ \A path \in DOMAIN fs : ReSearch("BRACKET_PAGE_RE", fs[path]) = 0

\* C28: the last line of the document holds a section token and the buffer it
\* opened was written with two lines, the first of them pushed in at the
\* boundary from a raw line with two bare markers.
C28_Witness ==
    /\ pc = "returned"
    /\ Len(lines) >= 2
    /\ process_line(lines[Len(lines)]).section_token # << >>
    /\ CountMarkers(lines[Len(lines) - 1]) = 2
    /\ Len(written) >= 2
    /\ Len(Last(written).lines) = 2
    /\ Len(SelectSeq(Last(written).lines[1], IsPageLabel)) = 2

-----------------------------------------------------------------------------
\* C29: the line pushed as first line of the new buffer at a boundary is the
\* line that process_line makes of its source line, with labels for its bare
\* markers: it holds no text-variant group, no dotted marker, no dash-tagged
\* token and no section token.
C29_InjectedLineCleaned ==
    [][BoundaryWithPending =>
          /\ current_lines' # << >>
          /\ \A re \in PatternNames : ReSearch(re, current_lines'[1]) = 0
          /\ MaskLabels(current_lines'[1])
                 = MaskMarkers(process_line(last_page_marker_line[1]).line)]_vars

-----------------------------------------------------------------------------
\* C30: the index that count_meaningful_lines_before_section returns for the
\* document is the index, counted from 0, of the first line for which
\* process_line returns a section id, and -1 when there is no such line.
C30_PreScanAgreesWithScan ==
    pc \in {"scan", "returned"} =>
        count_meaningful_lines_before_section(lines).first_section_line
            = FirstTokenLine(lines, 1) - 1

====
